---- MODULE Spec2Model ----
(***************************************************************************)
(* A model of the live-game backend of smartquiz: the REST game controller *)
(* (joinGame, startGame, endGame), the socket handlers (start-game,        *)
(* submit-answer, next-question, disconnect) and the auto-progression      *)
(* helpers (startQuestionTimer, checkAndProgressGame,                      *)
(* progressToNextQuestion).                                                *)
(*                                                                         *)
(* Every handler is an async function.  Between two awaits its code runs   *)
(* atomically on the single JavaScript thread; at an await it is suspended *)
(* while the database executes one query.  One action of the model is one  *)
(* database query being executed, preceded by the synchronous code that    *)
(* issued it, or one synchronous continuation that touches the in-memory   *)
(* maps (recentJoinRequests, gameStates) or the timers.                    *)
(***************************************************************************)
EXTENDS Integers, Sequences, FiniteSets, TLC

\* ------------------------------------------------------------------ bounds
NumPins      == 2      \* game codes in existence (opaque 6-digit codes)
MaxJoinReqs  == 3      \* joinGame requests in one run
MaxLobbyJoins == 2     \* joinGame requests in one run of the lobby
TickMs       == 500    \* granularity of Date.now()
MaxNow       == 1500   \* the clock stops here
NumQuestions == 2      \* questions of the quiz
MaxPlayers   == 2      \* participants admitted before the game
GameSubmits  == 2      \* submit-answer events in one run of SpecGame
AdvanceRacers == 2     \* progressToNextQuestion invocations in flight, SpecAdvance
Restarts     == 2      \* start-game events in one run of SpecRestart
LiveAdvances == 1      \* progressToNextQuestion invocations in flight, SpecLive
MaxCreates   == 2      \* createGameSession requests in one run of SpecCreate
MaxAnswerTime == 40    \* the answerTime values SpecScore tries, in seconds
AnswerSeconds == 15    \* the answerTime the players of a game report

\* ------------------------------------------------------- program constants
DEDUP_TIMEOUT     == 1000
maxPoints         == 1000
REFERENCE_SECONDS == 30     \* the divisor of answerTime in timeBonus
RESULT_BUFFER_S   == 2      \* startQuestionTimer: timeLimit + 2
RESULTS_PAUSE_MS  == 3000   \* checkAndProgressGame's delay
maxAttempts       == 10     \* createGameSession: candidate codes per request

Pins      == 1..NumPins
Nicknames == {"Ana", "Beto"}
Users     == {"host", "guest"}
Absent    == -1

VARIABLES
  \* the database
  game_sessions,       \* pin -> [status, host_id, current_question_index,
                       \*         ended_at (whether set)]
  player_sessions,     \* sequence of rows; a row's id is its position
  player_answers,      \* sequence of rows
  uniqueConstraint,    \* whether unique_player_per_game has been applied
  \* the game controller's memory
  recentJoinRequests,  \* <<pin, nickname>> -> timestamp, or Absent
  now,                 \* Date.now()
  \* requests in flight
  join,                \* joinGame requests
  startReq,            \* REST startGame requests
  endReq,              \* REST endGame requests
  createReq,           \* REST createGameSession requests
  sockJoin,            \* socket join-game events
  \* the socket module's memory
  gameStates,          \* pin -> the entry's object (0: no entry)
  gameStateObjs,       \* the gameState objects ever created; an id is a position
  timers,              \* the pending setTimeout handles
  hostSockets,         \* pin -> connected sockets with isHost set, in its room
  \* socket handlers in flight
  sockStart,           \* start-game
  sub,                 \* submit-answer
  adv,                 \* progressToNextQuestion invocations
  emitted              \* the events the last step emitted

dbVars   == <<game_sessions, player_sessions, player_answers, uniqueConstraint>>
joinVars == <<recentJoinRequests, now, join, startReq, endReq, createReq, sockJoin>>
memVars  == <<gameStates, gameStateObjs, timers>>
liveVars == <<memVars, hostSockets, sockStart, sub, adv, emitted>>
vars     == <<dbVars, joinVars, liveVars>>

\* ------------------------------------------------------------ the database

\* game_sessions: game_pin is UNIQUE, so a code names at most one row.
NoSession == [status |-> "none", host_id |-> "none", current_question_index |-> 0,
              ended_at |-> FALSE]

\* select id from player_sessions where game_session_id = pin
PlayersOf(pin) ==
  {i \in 1..Len(player_sessions) : player_sessions[i].game_session_id = pin}

\* ... and nickname = nick
PlayersNamed(pin, nick) ==
  {i \in PlayersOf(pin) : player_sessions[i].nickname = nick}

\* .single(): the row when exactly one row matches, null (0) otherwise
Single(rows) == IF Cardinality(rows) = 1 THEN CHOOSE i \in rows : TRUE ELSE 0

\* insert into player_sessions: refused (error 23505) when the migration's
\* constraint is in place and the pair exists.
InsertPlayerRefused(pin, nick) ==
  uniqueConstraint /\ PlayersNamed(pin, nick) # {}

NewPlayer(pin, nick) ==
  [game_session_id |-> pin, nickname |-> nick, score |-> 0]

\* ------------------------------------------------------------- joinGame

\* the lookup without its status filter
AnySessionFound(pin) == game_sessions[pin].status # "none"

\* .eq('game_pin', gamePin).eq('status', 'waiting').single() finds a row
WaitingSessionFound(pin) == game_sessions[pin].status = "waiting"

IdleJoin == [pc |-> "idle", gamePin |-> 0, nickname |-> "", res |-> "none",
             playerId |-> 0, statusSeen |-> "none", at |-> 0,
             firstAfter |-> FALSE]

\* whether a request arriving for key is the first one since a request for
\* that key was answered 201
FirstAfterAdmission(key) ==
  /\ \E i \in DOMAIN join :
       <<join[i].gamePin, join[i].nickname>> = key /\ join[i].res = "201"
  /\ \A i \in DOMAIN join :
       <<join[i].gamePin, join[i].nickname>> = key => ~join[i].firstAfter

\* the dedup test of joinGame
TooFrequent(key, t) ==
  /\ recentJoinRequests[key] # Absent
  /\ t - recentJoinRequests[key] < DEDUP_TIMEOUT

\* the garbage collection loop of joinGame
Collected(cache, t) ==
  [k \in DOMAIN cache |->
     IF cache[k] # Absent /\ t - cache[k] > DEDUP_TIMEOUT THEN Absent ELSE cache[k]]

\* a success path that leaves the cache alone, for contrast with
\* ClearedOnSuccess
KeptOnSuccess(cache, key) == cache

\* recentJoinRequests.delete(requestKey); recentJoinRequests.clear()
ClearedOnSuccess(cache, key) == [k \in DOMAIN cache |-> Absent]

\* The request arrives: validation, the dedup test, the record, the GC.
JoinArrive(j, pin, nick) ==
  /\ join[j].pc = "idle"
  /\ \A i \in DOMAIN join : i < j => join[i].pc # "idle"  \* requests are numbered by arrival
  /\ LET key == <<pin, nick>> IN
       IF TooFrequent(key, now)
       THEN /\ join' = [join EXCEPT ![j] =
                          [@ EXCEPT !.pc = "done", !.gamePin = pin,
                                    !.nickname = nick, !.res = "429",
                                    !.statusSeen = game_sessions[pin].status,
                                    !.at = now,
                                    !.firstAfter = FirstAfterAdmission(key)]]
            /\ UNCHANGED recentJoinRequests
       ELSE /\ recentJoinRequests' =
                 Collected([recentJoinRequests EXCEPT ![key] = now], now)
            /\ join' = [join EXCEPT ![j] =
                          [@ EXCEPT !.pc = "find", !.gamePin = pin,
                                    !.nickname = nick,
                                    !.statusSeen = game_sessions[pin].status,
                                    !.at = now,
                                    !.firstAfter = FirstAfterAdmission(key)]]
  /\ UNCHANGED <<dbVars, now, startReq, endReq, createReq, sockJoin, liveVars>>

\* select from game_sessions where game_pin = pin and status = 'waiting'
JoinFindSession(j) ==
  /\ join[j].pc = "find"
  /\ join' = [join EXCEPT ![j] =
                IF WaitingSessionFound(join[j].gamePin)
                THEN [@ EXCEPT !.pc = "check"]
                ELSE [@ EXCEPT !.pc = "done", !.res = "404"]]
  /\ UNCHANGED <<dbVars, recentJoinRequests, now, startReq, endReq, createReq, sockJoin, liveVars>>

\* a nickname check that writes the row before it rejects, for contrast
\* with JoinCheckNickname
JoinCheckLeavesRow(j) ==
  /\ join[j].pc = "check"
  /\ join' = [join EXCEPT ![j] =
                IF Single(PlayersNamed(join[j].gamePin, join[j].nickname)) # 0
                THEN [@ EXCEPT !.pc = "done", !.res = "400"]
                ELSE [@ EXCEPT !.pc = "insert"]]
  /\ player_sessions' =
       IF Single(PlayersNamed(join[j].gamePin, join[j].nickname)) # 0
       THEN Append(player_sessions, NewPlayer(join[j].gamePin, join[j].nickname))
       ELSE player_sessions
  /\ UNCHANGED <<game_sessions, player_answers, uniqueConstraint,
                 recentJoinRequests, now, startReq, endReq, createReq, sockJoin, liveVars>>

\* select id from player_sessions where (game, nickname) .single()
JoinCheckNickname(j) ==
  /\ join[j].pc = "check"
  /\ join' = [join EXCEPT ![j] =
                IF Single(PlayersNamed(join[j].gamePin, join[j].nickname)) # 0
                THEN [@ EXCEPT !.pc = "done", !.res = "400"]
                ELSE [@ EXCEPT !.pc = "insert"]]
  /\ UNCHANGED <<dbVars, recentJoinRequests, now, startReq, endReq, createReq, sockJoin, liveVars>>

\* insert into player_sessions
JoinInsert(j) ==
  /\ join[j].pc = "insert"
  /\ IF InsertPlayerRefused(join[j].gamePin, join[j].nickname)
     THEN /\ join' = [join EXCEPT ![j] = [@ EXCEPT !.pc = "done", !.res = "500"]]
          /\ UNCHANGED player_sessions
     ELSE /\ player_sessions' =
               Append(player_sessions, NewPlayer(join[j].gamePin, join[j].nickname))
          /\ join' = [join EXCEPT ![j] =
                        [@ EXCEPT !.pc = "respond",
                                  !.playerId = Len(player_sessions) + 1]]
  /\ UNCHANGED <<game_sessions, player_answers, uniqueConstraint,
                 recentJoinRequests, now, startReq, endReq, createReq, sockJoin, liveVars>>

\* The roster has been read: clear the cache and answer 201.
JoinRespond(j) ==
  /\ join[j].pc = "respond"
  /\ recentJoinRequests' =
       ClearedOnSuccess(recentJoinRequests, <<join[j].gamePin, join[j].nickname>>)
  /\ join' = [join EXCEPT ![j] = [@ EXCEPT !.pc = "done", !.res = "201"]]
  /\ UNCHANGED <<dbVars, now, startReq, endReq, createReq, sockJoin, liveVars>>

\* Time passes.  Only differences of timestamps are ever compared, so the
\* clock is advanced only while the cache holds a timestamp.
Tick ==
  /\ now + TickMs <= MaxNow
  /\ \E k \in DOMAIN recentJoinRequests : recentJoinRequests[k] # Absent
  /\ now' = now + TickMs
  /\ UNCHANGED <<dbVars, recentJoinRequests, join, startReq, endReq, createReq, sockJoin, liveVars>>

\* ---------------------------------------------------- socket: join-game

IdleSockJoin == [pc |-> "idle", gamePin |-> 0, nickname |-> "", res |-> "none",
                 statusSeen |-> "none"]

\* select id, status from game_sessions where game_pin; the two early exits
SockJoinFind(k, pin, nick) ==
  /\ sockJoin[k].pc = "idle"
  /\ \A i \in DOMAIN sockJoin : i < k => sockJoin[i].pc # "idle"
  /\ sockJoin' = [sockJoin EXCEPT ![k] =
       [pc |-> IF game_sessions[pin].status = "waiting" THEN "player" ELSE "done",
        gamePin |-> pin, nickname |-> nick,
        res |-> IF game_sessions[pin].status = "none" THEN "join-error: not found"
                ELSE IF game_sessions[pin].status # "waiting"
                     THEN "join-error: started or ended"
                     ELSE "none",
        statusSeen |-> game_sessions[pin].status]]
  /\ UNCHANGED <<dbVars, recentJoinRequests, now, join, startReq, endReq, createReq, liveVars>>

\* the socket joins the room; select the existing player; emit join-success
SockJoinPlayer(k) ==
  /\ sockJoin[k].pc = "player"
  /\ sockJoin' = [sockJoin EXCEPT ![k] =
                    [@ EXCEPT !.pc = "done", !.res = "join-success"]]
  /\ UNCHANGED <<dbVars, recentJoinRequests, now, join, startReq, endReq, createReq, liveVars>>

\* ------------------------------------------------------ startGame, endGame

IdleStart == [pc |-> "idle", gamePin |-> 0, caller |-> "none", res |-> "none"]

\* select from game_sessions where game_pin, host_id, status = 'waiting'
StartGameVerify(r, pin, caller) ==
  /\ startReq[r].pc \in {"idle", "done"}
  /\ startReq' = [startReq EXCEPT ![r] =
       IF /\ game_sessions[pin].status = "waiting"
          /\ game_sessions[pin].host_id = caller
       THEN [pc |-> "players", gamePin |-> pin, caller |-> caller, res |-> "none"]
       ELSE [pc |-> "done", gamePin |-> pin, caller |-> caller, res |-> "404"]]
  /\ UNCHANGED <<dbVars, recentJoinRequests, now, join, endReq, createReq, sockJoin, liveVars>>

\* select id from player_sessions where game_session_id
StartGamePlayers(r) ==
  /\ startReq[r].pc = "players"
  /\ startReq' = [startReq EXCEPT ![r] =
       IF PlayersOf(startReq[r].gamePin) = {}
       THEN [@ EXCEPT !.pc = "done", !.res = "400"]
       ELSE [@ EXCEPT !.pc = "update"]]
  /\ UNCHANGED <<dbVars, recentJoinRequests, now, join, endReq, createReq, sockJoin, liveVars>>

\* update game_sessions set status = 'active' where id
StartGameUpdate(r) ==
  /\ startReq[r].pc = "update"
  /\ game_sessions' = [game_sessions EXCEPT
                         ![startReq[r].gamePin].status = "active"]
  /\ startReq' = [startReq EXCEPT ![r] = [@ EXCEPT !.pc = "done", !.res = "200"]]
  /\ UNCHANGED <<player_sessions, player_answers, uniqueConstraint,
                 recentJoinRequests, now, join, endReq, createReq, sockJoin, liveVars>>

IdleEnd == [pc |-> "idle", gamePin |-> 0, caller |-> "none", res |-> "none"]

\* update game_sessions set status = 'completed' where game_pin, host_id;
\* no row updated: 404; otherwise the final scores are read and sent with
\* the 200
EndGame(e, pin, caller) ==
  /\ endReq[e].pc = "idle"
  /\ \A i \in DOMAIN endReq : i < e => endReq[i].pc # "idle"
  /\ IF game_sessions[pin].status # "none" /\ game_sessions[pin].host_id = caller
     THEN /\ game_sessions' = [game_sessions EXCEPT ![pin].status = "completed",
                                                    ![pin].ended_at = TRUE]
          /\ endReq' = [endReq EXCEPT ![e] =
                          [@ EXCEPT !.pc = "done", !.gamePin = pin,
                                    !.caller = caller, !.res = "200"]]
     ELSE /\ game_sessions' = game_sessions
          /\ endReq' = [endReq EXCEPT ![e] =
                          [@ EXCEPT !.pc = "done", !.gamePin = pin,
                                    !.caller = caller, !.res = "404"]]
  /\ UNCHANGED <<player_sessions, player_answers, uniqueConstraint,
                 recentJoinRequests, now, join, startReq, createReq, sockJoin,
                 liveVars>>

\* ------------------------------------------------ REST: createGameSession

IdleCreate == [pc |-> "idle", attempts |-> 0, gamePin |-> 0, res |-> "none"]

\* One turn of the loop: a candidate code is drawn and looked up among the
\* waiting sessions; a free one ends the loop, the maxAttempts-th taken one
\* ends the request with "Failed to generate unique game PIN".  The request
\* keeps the candidate it goes on to insert; a taken one is never read again.
CreateTryPin(c, candidate) ==
  /\ createReq[c].pc \in {"idle", "try"}
  /\ createReq[c].pc = "idle" =>
       \A i \in DOMAIN createReq : i < c => createReq[i].pc # "idle"
  /\ createReq[c].attempts < maxAttempts
  /\ createReq' = [createReq EXCEPT ![c] =
       IF game_sessions[candidate].status # "waiting"
       THEN [@ EXCEPT !.pc = "insert", !.attempts = @ + 1, !.gamePin = candidate]
       ELSE IF createReq[c].attempts + 1 < maxAttempts
            THEN [@ EXCEPT !.pc = "try", !.attempts = @ + 1]
            ELSE [@ EXCEPT !.pc = "done", !.attempts = @ + 1,
                           !.res = "500: no unique pin"]]
  /\ UNCHANGED <<dbVars, recentJoinRequests, now, join, startReq, endReq, sockJoin,
                 liveVars>>

\* an insert into a table whose game_pin is not UNIQUE, for contrast with
\* CreateInsert
CreateInsertAnyCode(c) ==
  /\ createReq[c].pc = "insert"
  /\ game_sessions' = [game_sessions EXCEPT ![createReq[c].gamePin] =
                         [status |-> "waiting", host_id |-> "host",
                          current_question_index |-> 0,
                                  ended_at |-> FALSE]]
  /\ createReq' = [createReq EXCEPT ![c] =
                     [@ EXCEPT !.pc = "done", !.res = "201"]]
  /\ UNCHANGED <<player_sessions, player_answers, uniqueConstraint,
                 recentJoinRequests, now, join, startReq, endReq, sockJoin, liveVars>>

\* insert into game_sessions (status waiting, index 0); game_pin is UNIQUE
CreateInsert(c) ==
  /\ createReq[c].pc = "insert"
  /\ IF game_sessions[createReq[c].gamePin].status # "none"
     THEN /\ createReq' = [createReq EXCEPT ![c] =
                             [@ EXCEPT !.pc = "done", !.res = "500"]]
          /\ UNCHANGED game_sessions
     ELSE /\ game_sessions' = [game_sessions EXCEPT ![createReq[c].gamePin] =
                                 [status |-> "waiting", host_id |-> "host",
                                  current_question_index |-> 0,
                                  ended_at |-> FALSE]]
          /\ createReq' = [createReq EXCEPT ![c] =
                             [@ EXCEPT !.pc = "done", !.res = "201"]]
  /\ UNCHANGED <<player_sessions, player_answers, uniqueConstraint,
                 recentJoinRequests, now, join, startReq, endReq, sockJoin, liveVars>>

\* ------------------------------------------------------------------ the quiz

\* The questions of the quiz being played, as the database returns them (in
\* no order), and their answer options.  Ids are opaque.
QuestionRows ==
  {[id |-> 100 + k, order_index |-> k - 1, time_limit |-> 10 * k,
    points |-> 500 * k] :
     k \in 1..NumQuestions}

OptionRows ==
  UNION {{[id |-> 10 * q.id + 1, question_id |-> q.id, is_correct |-> TRUE],
          [id |-> 10 * q.id + 2, question_id |-> q.id, is_correct |-> FALSE]} :
           q \in QuestionRows}

QuestionIds == {q.id : q \in QuestionRows}
OptionIds   == {o.id : o \in OptionRows}

\* questions.sort((a, b) => a.order_index - b.order_index)
RECURSIVE SortByOrderIndex(_)
SortByOrderIndex(rows) ==
  IF rows = {} THEN <<>>
  ELSE LET first == CHOOSE q \in rows :
                      \A r \in rows : q.order_index <= r.order_index
       IN  <<first>> \o SortByOrderIndex(rows \ {first})

Questions == SortByOrderIndex(QuestionRows)

\* select is_correct from answer_options where id = answerId .single()
AnswerOption(answerId) ==
  IF answerId \in OptionIds
  THEN CHOOSE o \in OptionRows : o.id = answerId
  ELSE [id |-> 0, question_id |-> 0, is_correct |-> FALSE]

\* ------------------------------------------------------------------ scoring

\* a division that drops the fraction, for contrast with Round
Truncated(num, den) == num \div den

\* Math.round of the rational num / den (den > 0): halves go up.
Round(num, den) == (2 * num + den) \div (2 * den)

\* a bonus that grows with answerTime, for contrast with TimeBonusNum
RisingBonusNum(answerTime) ==
  IF answerTime < REFERENCE_SECONDS THEN answerTime ELSE REFERENCE_SECONDS

\* Math.max(0, 1 - answerTime / 30) as the rational TimeBonusNum / 30
TimeBonusNum(answerTime) ==
  IF REFERENCE_SECONDS - answerTime > 0 THEN REFERENCE_SECONDS - answerTime ELSE 0

\* points = is_correct ? Math.round(maxPoints * timeBonus) : 0
Points(isCorrect, answerTime) ==
  IF isCorrect
  THEN Round(maxPoints * TimeBonusNum(answerTime), REFERENCE_SECONDS)
  ELSE 0

\* rpc increment_player_score(player_id, points_to_add)
IncrementedScore(rows, playerId, points) ==
  [i \in 1..Len(rows) |->
     IF i = playerId THEN [rows[i] EXCEPT !.score = @ + points] ELSE rows[i]]

\* select id, nickname, score ... order by score desc (ties by id)
RECURSIVE RankedByScore(_)
RankedByScore(ids) ==
  IF ids = {} THEN <<>>
  ELSE LET top == CHOOSE i \in ids :
                    \A k \in ids :
                      \/ player_sessions[i].score > player_sessions[k].score
                      \/ /\ player_sessions[i].score = player_sessions[k].score
                         /\ i <= k
       IN  <<[id |-> top, score |-> player_sessions[top].score]>>
             \o RankedByScore(ids \ {top})

\* --------------------------------------------- gameStates and the timers

\* an emitted event: its name, its destination ("room" or "socket") and its
\* payload; correct is the payload's field of that name (FALSE without one)
ResultEvent(type, to, a, b, c, correct) ==
  [type |-> type, to |-> to, a |-> a, b |-> b, c |-> c, correct |-> correct]

Event(type, to, a, b, c) == ResultEvent(type, to, a, b, c, FALSE)

TimerIdsInUse(objs, tms) ==
  {t.id : t \in tms} \cup {objs[i].timer : i \in 1..Len(objs)}

\* setTimeout returns a handle no live reference names
FreshTimerId(objs, tms) ==
  CHOOSE n \in 1..(Cardinality(TimerIdsInUse(objs, tms)) + 1) :
    /\ n \notin TimerIdsInUse(objs, tms)
    /\ \A m \in 1..(n - 1) : m \in TimerIdsInUse(objs, tms)

\* clearTimeout(handle): no effect on a handle that fired or was cleared
ClearTimeout(tms, handle) == {t \in tms : t.id # handle}

\* if (gameState.timer) clearTimeout(gameState.timer);
\* gameState.timer = setTimeout(progressToNextQuestion, ms)
Rearmed(objs, tms, o, pin, ms) ==
  LET id == FreshTimerId(objs, tms) IN
  [objs   |-> [objs EXCEPT ![o].timer = id],
   timers |-> ClearTimeout(tms, objs[o].timer)
                \cup {[id |-> id, pin |-> pin, ms |-> ms]}]

\* startQuestionTimer arms (timeLimit + 2) * 1000 ms
QuestionTimerMs(timeLimit) == (timeLimit + RESULT_BUFFER_S) * 1000

\* a startQuestionTimer that arms nothing, for contrast with the real one
NeverArmed(states, objs, tms, pin, timeLimit) == [objs |-> objs, timers |-> tms]

\* startQuestionTimer(io, gamePin, timeLimit), on the maps given
StartQuestionTimer(states, objs, tms, pin, timeLimit) ==
  IF states[pin] = 0
  THEN [objs |-> objs, timers |-> tms]
  ELSE Rearmed(objs, tms, states[pin], pin, QuestionTimerMs(timeLimit))

\* --------------------------------------------------- socket: start-game

IdleSockStart == [pc |-> "idle", gamePin |-> 0, caller |-> "none", players |-> {}]
DoneSockStart == [IdleSockStart EXCEPT !.pc = "done"]

\* select id, quizzes(questions(...)) from game_sessions where game_pin
SockStartFetch(h, pin, caller) ==
  /\ sockStart[h].pc = "idle"
  /\ \A i \in DOMAIN sockStart : i < h => sockStart[i].pc # "idle"
  /\ IF game_sessions[pin].status = "none" \/ Len(Questions) = 0
     THEN /\ sockStart' = [sockStart EXCEPT ![h] = DoneSockStart]
          /\ emitted' = {Event("error", "socket", pin, 0, 0)}
     ELSE /\ sockStart' = [sockStart EXCEPT ![h] =
                             [@ EXCEPT !.pc = "players", !.gamePin = pin,
                                       !.caller = caller]]
          /\ emitted' = {}
  /\ UNCHANGED <<dbVars, joinVars, hostSockets, memVars, sub, adv>>

\* select id from player_sessions where game_session_id
SockStartPlayers(h) ==
  /\ sockStart[h].pc = "players"
  /\ sockStart' = [sockStart EXCEPT ![h] =
                     [@ EXCEPT !.pc = "init",
                               !.players = PlayersOf(sockStart[h].gamePin)]]
  /\ emitted' = {}
  /\ UNCHANGED <<dbVars, joinVars, hostSockets, memVars, sub, adv>>

\* the object start-game puts into gameStates
NewGameState(pin, players) ==
  [players |-> players, currentQuestionId |-> Questions[1].id,
   currentQuestionIndex |-> 0, totalQuestions |-> Len(Questions),
   timer |-> 0, gameSessionId |-> pin]

\* gameStates.set(...); emit game-started; startQuestionTimer(...)
SockStartInit(h) ==
  /\ sockStart[h].pc = "init"
  /\ LET pin    == sockStart[h].gamePin
         objs   == Append(gameStateObjs, NewGameState(pin, sockStart[h].players))
         states == [gameStates EXCEPT ![pin] = Len(objs)]
         armed  == StartQuestionTimer(states, objs, timers, pin,
                                      Questions[1].time_limit)
     IN  /\ gameStates' = states
         /\ gameStateObjs' = armed.objs
         /\ timers' = armed.timers
         /\ emitted' = {Event("game-started", "room", pin, 1, Len(Questions))}
  /\ sockStart' = [sockStart EXCEPT ![h] = DoneSockStart]
  /\ UNCHANGED <<dbVars, joinVars, hostSockets, sub, adv>>

\* ------------------------------------------------- socket: submit-answer

IdleSubmit == [pc |-> "idle", playerId |-> 0, questionId |-> 0, answerId |-> 0,
               answerTime |-> 0, points |-> 0, saved |-> FALSE, obj |-> 0,
               answered |-> {}]

DoneSubmit == [IdleSubmit EXCEPT !.pc = "done"]

NewAnswer(playerId, questionId, answerId, answerTime, points) ==
  [player_session_id |-> playerId, question_id |-> questionId,
   answer_option_id |-> answerId, answer_time |-> answerTime,
   points_earned |-> points]

\* The answer option is looked up, the points computed and the answer
\* inserted; a failed insert is logged and the handler goes on.
SubmitInsert(s, playerId, questionId, answerId, answerTime, ok) ==
  /\ sub[s].pc = "idle"
  /\ \A i \in DOMAIN sub : i < s => sub[i].pc # "idle"
  /\ IF AnswerOption(answerId).id = 0
     THEN /\ sub' = [sub EXCEPT ![s] = DoneSubmit]
          /\ emitted' = {Event("answer-error", "socket", playerId, 0, 0)}
          /\ UNCHANGED player_answers
     ELSE LET points == Points(AnswerOption(answerId).is_correct, answerTime) IN
          /\ player_answers' =
               IF ok
               THEN Append(player_answers,
                           NewAnswer(playerId, questionId, answerId, answerTime, points))
               ELSE player_answers
          /\ sub' = [sub EXCEPT ![s] =
                       [@ EXCEPT !.pc = "score", !.playerId = playerId,
                                 !.questionId = questionId, !.answerId = answerId,
                                 !.answerTime = answerTime, !.points = points,
                                 !.saved = ok]]
          /\ emitted' = {}
  /\ UNCHANGED <<game_sessions, player_sessions, uniqueConstraint, joinVars, hostSockets,
                 memVars, sockStart, adv>>

\* if (points > 0) rpc increment_player_score; then the reads of the
\* player's session and of the roster
SubmitScore(s) ==
  /\ sub[s].pc = "score"
  /\ player_sessions' =
       IF sub[s].points > 0
       THEN IncrementedScore(player_sessions, sub[s].playerId, sub[s].points)
       ELSE player_sessions
  /\ sub' = [sub EXCEPT ![s] = [@ EXCEPT !.pc = "emit"]]
  /\ emitted' = {}
  /\ UNCHANGED <<game_sessions, player_answers, uniqueConstraint, joinVars, hostSockets,
                 memVars, sockStart, adv>>

\* the guard of checkAndProgressGame
QuestionStillCurrent(pin, questionId) ==
  /\ gameStates[pin] # 0
  /\ gameStateObjs[gameStates[pin]].currentQuestionId = questionId

\* emit score-updated (with updatedPlayer: id, points, correct) to the room
\* and answer-result to the submitter, then enter checkAndProgressGame
SubmitBroadcast(s) ==
  /\ sub[s].pc = "emit"
  /\ LET pin     == player_sessions[sub[s].playerId].game_session_id
         correct == AnswerOption(sub[s].answerId).is_correct
     IN  /\ emitted' =
               {ResultEvent("score-updated", "room", pin, sub[s].playerId,
                            sub[s].points, correct),
                ResultEvent("answer-result", "socket", sub[s].playerId,
                            sub[s].answerId, sub[s].points, correct)}
         /\ sub' = [sub EXCEPT ![s] =
                      IF QuestionStillCurrent(pin, sub[s].questionId)
                      THEN [@ EXCEPT !.pc = "answers", !.obj = gameStates[pin]]
                      ELSE DoneSubmit]
  /\ UNCHANGED <<dbVars, joinVars, hostSockets, memVars, sockStart, adv>>

\* select player_session_id from player_answers where question_id
AnsweredPlayerIds(questionId) ==
  {player_answers[i].player_session_id :
     i \in {k \in 1..Len(player_answers) :
              player_answers[k].question_id = questionId}}

SubmitReadAnswers(s) ==
  /\ sub[s].pc = "answers"
  /\ sub' = [sub EXCEPT ![s] =
               [@ EXCEPT !.pc = "check",
                         !.answered = AnsweredPlayerIds(sub[s].questionId)]]
  /\ emitted' = {}
  /\ UNCHANGED <<dbVars, joinVars, hostSockets, memVars, sockStart, adv>>

\* gameState.players.size > 0 && every player has answered
AllPlayersAnswered(players, answered) ==
  players # {} /\ players \subseteq answered

\* the rest of checkAndProgressGame: replace the timer by the 3 s one
SubmitCheck(s) ==
  /\ sub[s].pc = "check"
  /\ LET o   == sub[s].obj
         pin == gameStateObjs[o].gameSessionId
     IN  IF AllPlayersAnswered(gameStateObjs[o].players, sub[s].answered)
         THEN LET armed == Rearmed(gameStateObjs, timers, o, pin, RESULTS_PAUSE_MS)
              IN  /\ gameStateObjs' = armed.objs
                  /\ timers' = armed.timers
                  /\ gameStates' = [gameStates EXCEPT ![pin] = o]
         ELSE UNCHANGED memVars
  /\ sub' = [sub EXCEPT ![s] = DoneSubmit]
  /\ emitted' = {}
  /\ UNCHANGED <<dbVars, joinVars, hostSockets, sockStart, adv>>

\* --------------------------------------------------- socket: show-results

\* select id from answer_options where question_id and is_correct .single()
CorrectAnswer(questionId) ==
  Single({o.id : o \in {x \in OptionRows :
                           x.question_id = questionId /\ x.is_correct}})

\* The handler, sent by any socket: the scores and the correct answer of
\* the question named are read and question-results and score-updated are
\* emitted to the room.
ShowResults(pin, questionId) ==
  /\ emitted' =
       IF game_sessions[pin].status = "none"
       THEN {Event("error", "socket", pin, 0, 0)}
       ELSE {Event("question-results", "room", pin, CorrectAnswer(questionId), 0),
             Event("score-updated", "room", pin, 0, 0)}
  /\ UNCHANGED <<dbVars, joinVars, hostSockets, memVars, sockStart, sub, adv>>

\* the options of a question as game-started and next-question carry them
ClientOptions(questionId) ==
  {[id |-> o.id] : o \in {x \in OptionRows : x.question_id = questionId}}

\* questionForClient
QuestionForClient(q) ==
  [id |-> q.id, time_limit |-> q.time_limit, points |-> q.points,
   order_index |-> q.order_index,
   answer_options |-> ClientOptions(q.id)]

\* the position (0-based) of a question in the sorted list
QuestionIndex(questionId) ==
  (CHOOSE i \in 1..Len(Questions) : Questions[i].id = questionId) - 1

\* ----------------------------------------------- progressToNextQuestion

IdleAdv == [pc |-> "idle", gamePin |-> 0, obj |-> 0, nextIndex |-> 0,
            via |-> "none", caller |-> "none", finalScores |-> <<>>]

FreeAdv == {a \in DOMAIN adv : adv[a].pc = "idle"}

\* a head that steps over one question, for contrast with Entered
EnteredSkipping(pin, via, caller) ==
  IF gameStates[pin] = 0
  THEN adv
  ELSE LET a == CHOOSE x \in {y \in DOMAIN adv : adv[y].pc = "idle"} : TRUE IN
       [adv EXCEPT ![a] =
          [pc |-> "fetch", gamePin |-> pin, obj |-> gameStates[pin],
           nextIndex |-> gameStateObjs[gameStates[pin]].currentQuestionIndex + 2,
           via |-> via, caller |-> caller, finalScores |-> <<>>]]

\* The synchronous head of progressToNextQuestion: no entry, no effect;
\* otherwise nextIndex is read and the session query is issued.
Entered(pin, via, caller) ==
  IF gameStates[pin] = 0
  THEN adv
  ELSE LET a == CHOOSE x \in FreeAdv : \A y \in FreeAdv : x <= y IN
       [adv EXCEPT ![a] =
          [pc |-> "fetch", gamePin |-> pin, obj |-> gameStates[pin],
           nextIndex |-> gameStateObjs[gameStates[pin]].currentQuestionIndex + 1,
           via |-> via, caller |-> caller, finalScores |-> <<>>]]

\* A pending timeout fires: its callback calls progressToNextQuestion.
TimerFire(t) ==
  /\ t \in timers
  /\ FreeAdv # {}
  /\ timers' = timers \ {t}
  /\ adv' = Entered(t.pin, IF t.ms = RESULTS_PAUSE_MS THEN "pause" ELSE "timeout",
                    "timer")
  /\ emitted' = {}
  /\ UNCHANGED <<dbVars, joinVars, hostSockets, gameStates, gameStateObjs, sockStart, sub>>

\* socket: next-question (manual host override), from any socket
NextQuestion(pin, caller) ==
  /\ FreeAdv # {}
  /\ gameStates[pin] # 0
  /\ adv' = Entered(pin, "manual", caller)
  /\ emitted' = {}
  /\ UNCHANGED <<dbVars, joinVars, hostSockets, memVars, sockStart, sub>>

\* The session query returns no row (a failed or empty read): the error is
\* logged and the function returns.
AdvSessionNotFound(a) ==
  /\ adv[a].pc = "fetch"
  /\ adv' = [adv EXCEPT ![a] = IdleAdv]
  /\ emitted' = {}
  /\ UNCHANGED <<dbVars, joinVars, hostSockets, memVars, sockStart, sub>>

\* The questions are exhausted: select the final scores.
AdvFinalScores(a) ==
  /\ adv[a].pc = "fetch"
  /\ adv[a].nextIndex >= Len(Questions)
  /\ adv' = [adv EXCEPT ![a] =
               [@ EXCEPT !.pc = "complete",
                         !.finalScores = RankedByScore(PlayersOf(adv[a].gamePin))]]
  /\ emitted' = {}
  /\ UNCHANGED <<dbVars, joinVars, hostSockets, memVars, sockStart, sub>>

\* update game_sessions set status = 'completed', ended_at where game_pin
AdvComplete(a) ==
  /\ adv[a].pc = "complete"
  /\ game_sessions' = [game_sessions EXCEPT ![adv[a].gamePin].status = "completed",
                                            ![adv[a].gamePin].ended_at = TRUE]
  /\ adv' = [adv EXCEPT ![a] = [@ EXCEPT !.pc = "end"]]
  /\ emitted' = {}
  /\ UNCHANGED <<player_sessions, player_answers, uniqueConstraint, joinVars, hostSockets,
                 memVars, sockStart, sub>>

\* an end of the game that keeps the entry, for contrast with AdvEnd
AdvEndKeepsEntry(a) ==
  /\ adv[a].pc = "end"
  /\ emitted' = {Event("game-ended", "room", adv[a].gamePin, adv[a].finalScores, 0)}
  /\ adv' = [adv EXCEPT ![a] = IdleAdv]
  /\ UNCHANGED <<dbVars, joinVars, hostSockets, memVars, sockStart, sub>>

\* emit game-ended; gameStates.delete(gamePin)
AdvEnd(a) ==
  /\ adv[a].pc = "end"
  /\ emitted' = {Event("game-ended", "room", adv[a].gamePin, adv[a].finalScores, 0)}
  /\ gameStates' = [gameStates EXCEPT ![adv[a].gamePin] = 0]
  /\ adv' = [adv EXCEPT ![a] = IdleAdv]
  /\ UNCHANGED <<dbVars, joinVars, hostSockets, gameStateObjs, timers, sockStart, sub>>

\* update game_sessions set current_question_index = nextIndex
AdvSetIndex(a) ==
  /\ adv[a].pc = "fetch"
  /\ adv[a].nextIndex < Len(Questions)
  /\ game_sessions' = [game_sessions EXCEPT
                         ![adv[a].gamePin].current_question_index = adv[a].nextIndex]
  /\ adv' = [adv EXCEPT ![a] = [@ EXCEPT !.pc = "next"]]
  /\ emitted' = {}
  /\ UNCHANGED <<player_sessions, player_answers, uniqueConstraint, joinVars, hostSockets,
                 memVars, sockStart, sub>>

\* The new question is written into the gameState object, the entry is set,
\* next-question is emitted and the question's timer is started.
AdvNext(a) ==
  /\ adv[a].pc = "next"
  /\ LET pin    == adv[a].gamePin
         o      == adv[a].obj
         q      == Questions[adv[a].nextIndex + 1]
         objs   == [gameStateObjs EXCEPT ![o].currentQuestionId = q.id,
                                         ![o].currentQuestionIndex = adv[a].nextIndex]
         states == [gameStates EXCEPT ![pin] = o]
         armed  == StartQuestionTimer(states, objs, timers, pin, q.time_limit)
     IN  /\ gameStates' = states
         /\ gameStateObjs' = armed.objs
         /\ timers' = armed.timers
         /\ emitted' = {Event("next-question", "room", pin, adv[a].nextIndex + 1,
                              Len(Questions))}
  /\ adv' = [adv EXCEPT ![a] = IdleAdv]
  /\ UNCHANGED <<dbVars, joinVars, hostSockets, sockStart, sub>>

\* ---------------------------------------------------- socket: disconnect

\* a disconnect that cleans nothing up, for contrast with HostDisconnect
HostLeaves(pin) ==
  /\ hostSockets[pin] > 0
  /\ hostSockets' = [hostSockets EXCEPT ![pin] = @ - 1]
  /\ emitted' = {}
  /\ UNCHANGED <<dbVars, joinVars, memVars, sockStart, sub, adv>>

\* a socket with isHost set disconnects: clear the entry's timer, delete
\* the entry
HostDisconnect(pin) ==
  /\ hostSockets[pin] > 0
  /\ hostSockets' = [hostSockets EXCEPT ![pin] = @ - 1]
  /\ timers' = IF gameStates[pin] = 0 THEN timers
               ELSE ClearTimeout(timers, gameStateObjs[gameStates[pin]].timer)
  /\ gameStates' = [gameStates EXCEPT ![pin] = 0]
  /\ emitted' = {}
  /\ UNCHANGED <<dbVars, joinVars, gameStateObjs, sockStart, sub, adv>>

\* a disconnect that also takes the player off the live roster, for
\* contrast with ParticipantDisconnect
ParticipantDropped(playerId) ==
  /\ playerId \in 1..Len(player_sessions)
  /\ emitted' = {Event("player-left", "room",
                       player_sessions[playerId].game_session_id, playerId, 0)}
  /\ gameStateObjs' =
       [o \in DOMAIN gameStateObjs |->
          [gameStateObjs[o] EXCEPT !.players = @ \ {playerId}]]
  /\ UNCHANGED <<dbVars, joinVars, hostSockets, gameStates, timers, sockStart,
                 sub, adv>>

\* a player's socket: emit player-left to the rest of the room
ParticipantDisconnect(playerId) ==
  /\ playerId \in 1..Len(player_sessions)
  /\ emitted' = {Event("player-left", "room",
                       player_sessions[playerId].game_session_id, playerId, 0)}
  /\ UNCHANGED <<dbVars, joinVars, hostSockets, memVars, sockStart, sub, adv>>

\* ------------------------------------------------------------ specifications

WaitingSession ==
  [status |-> "waiting", host_id |-> "host", current_question_index |-> 0,
   ended_at |-> FALSE]

NickNames == <<"Ana", "Beto", "Carlos", "Dana", "Eva">>

\* the roster after k players have joined game 1 under distinct nicknames
Roster(k) == [i \in 1..k |-> NewPlayer(1, NickNames[i])]

InitSessions ==
  /\ game_sessions = [p \in Pins |-> IF p = 1 THEN WaitingSession ELSE NoSession]
  /\ player_answers = <<>>

InitController(joins, starts, sockJoins) ==
  /\ recentJoinRequests = [k \in Pins \X Nicknames |-> Absent]
  /\ now = 0
  /\ join = [j \in 1..joins |-> IdleJoin]
  /\ startReq = [r \in 1..starts |-> IdleStart]
  /\ sockJoin = [k \in 1..sockJoins |-> IdleSockJoin]

InitEnd(ends) ==
  /\ endReq = [e \in 1..ends |-> IdleEnd]
  /\ createReq = <<>>

InitSockets(starts, submits, advances) ==
  /\ gameStates = [p \in Pins |-> 0]
  /\ gameStateObjs = <<>>
  /\ timers = {}
  /\ hostSockets = [p \in Pins |-> IF game_sessions[p].status = "none" THEN 0 ELSE 1]
  /\ sockStart = [h \in 1..starts |-> IdleSockStart]
  /\ sub = [s \in 1..submits |-> IdleSubmit]
  /\ adv = [a \in 1..advances |-> IdleAdv]
  /\ emitted = {}

JoinStep ==
  \E j \in DOMAIN join :
    \/ \E nick \in Nicknames : JoinArrive(j, 1, nick)
    \/ JoinFindSession(j)
    \/ JoinCheckNickname(j)
    \/ JoinInsert(j)
    \/ JoinRespond(j)

SockJoinStep ==
  \E k \in DOMAIN sockJoin :
    \/ \E nick \in Nicknames : SockJoinFind(k, 1, nick)
    \/ SockJoinPlayer(k)

EndGameStep == \E e \in DOMAIN endReq : EndGame(e, 1, "host")

StartGameStep ==
  \E r \in DOMAIN startReq :
    \/ StartGameVerify(r, 1, "host")
    \/ StartGamePlayers(r)
    \/ StartGameUpdate(r)

SockStartStep ==
  \E h \in DOMAIN sockStart :
    \/ SockStartFetch(h, 1, "host")
    \/ SockStartPlayers(h)
    \/ SockStartInit(h)

\* a player of the game answers one of the quiz's questions with one of
\* that question's options, AnswerSeconds after the question was shown
SubmitStep ==
  \E s \in DOMAIN sub :
    \/ \E playerId \in 1..Len(player_sessions), answerId \in OptionIds :
         SubmitInsert(s, playerId, AnswerOption(answerId).question_id, answerId,
                      AnswerSeconds, TRUE)
    \/ SubmitScore(s)
    \/ SubmitBroadcast(s)
    \/ SubmitReadAnswers(s)
    \/ SubmitCheck(s)

ProgressStep ==
  \/ \E t \in timers : TimerFire(t)
  \/ \E a \in DOMAIN adv :
       \/ AdvFinalScores(a)
       \/ AdvComplete(a)
       \/ AdvEnd(a)
       \/ AdvSetIndex(a)
       \/ AdvNext(a)

\* --- SpecJoin: joinGame requests racing each other on a session that
\* stays waiting
InitJoin ==
  /\ InitSessions
  /\ uniqueConstraint \in BOOLEAN
  /\ player_sessions = <<>>
  /\ InitController(MaxJoinReqs, 0, 0)
  /\ InitEnd(0)
  /\ InitSockets(0, 0, 0)

NextJoin == JoinStep \/ Tick

SpecJoin == InitJoin /\ [][NextJoin]_vars

\* --- SpecBurst: the same requests, all arriving within one tick of the
\* clock, as the duplicate-prevention test sends them
SpecBurst == InitJoin /\ [][JoinStep]_vars

\* --- SpecLobby: joins while the host starts and ends the game.  The host
\* sends one startGame request after the other; one socket sends join-game
\* (the handler writes nothing the other handlers read).
InitLobby ==
  /\ InitSessions
  /\ uniqueConstraint \in BOOLEAN
  /\ player_sessions = <<>>
  /\ InitController(MaxLobbyJoins, 1, 1)
  /\ InitEnd(1)
  /\ InitSockets(0, 0, 0)

NextLobby ==
  JoinStep \/ Tick \/ SockJoinStep \/ StartGameStep \/ EndGameStep

SpecLobby == InitLobby /\ [][NextLobby]_vars

\* --- the game specifications start from a lobby whose roster was
\* admitted under distinct nicknames
InitHosted(restStarts, starts, submits, advances, ends) ==
  /\ InitSessions
  /\ uniqueConstraint = FALSE
  /\ \E k \in 0..MaxPlayers : player_sessions = Roster(k)
  /\ InitController(0, restStarts, 0)
  /\ InitEnd(ends)
  /\ InitSockets(starts, submits, advances)

InitPlay(restStarts, starts, submits, advances) ==
  InitHosted(restStarts, starts, submits, advances, 0)

\* --- SpecGame: one start-game, answers to any question, timers, the
\* host's next-question and the host's disconnect
InitGame == InitPlay(0, 1, GameSubmits, 1)

NextGame ==
  SockStartStep \/ SubmitStep \/ ProgressStep \/ NextQuestion(1, "host")
    \/ HostDisconnect(1)

SpecGame == InitGame /\ [][NextGame]_vars

\* --- SpecAdvance: timer expiries racing the host's next-question
InitAdvance == InitPlay(0, 1, 0, AdvanceRacers)

NextAdvance == SockStartStep \/ ProgressStep \/ NextQuestion(1, "host")

SpecAdvance == InitAdvance /\ [][NextAdvance]_vars

\* a player answers the question its client is showing: the current one
SubmitCurrentStep ==
  \E s \in DOMAIN sub :
    \/ \E playerId \in 1..Len(player_sessions), answerId \in OptionIds :
         /\ QuestionStillCurrent(1, AnswerOption(answerId).question_id)
         /\ SubmitInsert(s, playerId, AnswerOption(answerId).question_id,
                         answerId, AnswerSeconds, TRUE)
    \/ SubmitScore(s)
    \/ SubmitBroadcast(s)
    \/ SubmitReadAnswers(s)
    \/ SubmitCheck(s)

\* --- SpecRestart: the host starts the game over REST and the socket, and
\* may send start-game again; players answer the current question
InitRestart == InitPlay(1, Restarts, 1, 1)

NextRestart ==
  StartGameStep \/ SockStartStep \/ SubmitCurrentStep \/ ProgressStep

SpecRestart == InitRestart /\ [][NextRestart]_vars

\* --- SpecLive: a game whose host stays connected, under fair timers and
\* fair, successful storage calls
InitLive == InitPlay(0, 1, 1, LiveAdvances)

NextLive == SockStartStep \/ SubmitCurrentStep \/ ProgressStep \/ NextQuestion(1, "host")

AdvSteps(a) ==
  AdvFinalScores(a) \/ AdvComplete(a) \/ AdvEnd(a) \/ AdvSetIndex(a) \/ AdvNext(a)

FairProgress ==
  /\ WF_vars(\E t \in timers : TimerFire(t))
  /\ \A a \in 1..LiveAdvances : WF_vars(AdvSteps(a))

SpecLive == InitLive /\ [][NextLive]_vars /\ FairProgress

\* --- SpecAnyone: the host's operations (start over REST and the socket,
\* next-question, end), requested by the host or by another user
InitAnyone == InitHosted(1, 1, 0, 1, 1)

NextAnyone ==
  \/ \E caller \in Users :
       \/ \E r \in DOMAIN startReq : StartGameVerify(r, 1, caller)
       \/ \E h \in DOMAIN sockStart : SockStartFetch(h, 1, caller)
       \/ NextQuestion(1, caller)
       \/ \E e \in DOMAIN endReq : EndGame(e, 1, caller)
  \/ \E r \in DOMAIN startReq : StartGamePlayers(r) \/ StartGameUpdate(r)
  \/ \E h \in DOMAIN sockStart : SockStartPlayers(h) \/ SockStartInit(h)
  \/ ProgressStep

SpecAnyone == InitAnyone /\ [][NextAnyone]_vars

\* --- SpecReveal: a game in which any socket may send show-results
InitReveal == InitHosted(0, 1, 1, 1, 0)

NextReveal ==
  \/ SockStartStep
  \/ SubmitCurrentStep
  \/ ProgressStep
  \/ \E questionId \in QuestionIds : ShowResults(1, questionId)

SpecReveal == InitReveal /\ [][NextReveal]_vars

\* --- SpecEnd: the host ends a game over REST, before or while it runs
InitEnded == InitHosted(0, 1, 1, 1, 1)

NextEnded == SockStartStep \/ SubmitCurrentStep \/ ProgressStep \/ EndGameStep

SpecEnd == InitEnded /\ [][NextEnded]_vars

\* --- SpecLeave: a game whose host and players may disconnect
InitLeave == InitHosted(0, 1, 1, 1, 0)

NextLeave ==
  \/ SockStartStep
  \/ SubmitCurrentStep
  \/ ProgressStep
  \/ HostDisconnect(1)
  \/ \E playerId \in 1..Len(player_sessions) : ParticipantDisconnect(playerId)

SpecLeave == InitLeave /\ [][NextLeave]_vars

\* an answer to the current question whose insert succeeds or fails
SubmitStorageStep ==
  \E s \in DOMAIN sub :
    \/ \E playerId \in 1..Len(player_sessions), answerId \in OptionIds,
          ok \in BOOLEAN :
         /\ QuestionStillCurrent(1, AnswerOption(answerId).question_id)
         /\ SubmitInsert(s, playerId, AnswerOption(answerId).question_id,
                         answerId, AnswerSeconds, ok)
    \/ SubmitScore(s)
    \/ SubmitBroadcast(s)
    \/ SubmitReadAnswers(s)
    \/ SubmitCheck(s)

\* --- SpecStorage: a game in which the insert of an answer may fail
InitStorage == InitHosted(0, 1, 1, 1, 0)

NextStorage == SockStartStep \/ SubmitStorageStep \/ ProgressStep

SpecStorage == InitStorage /\ [][NextStorage]_vars

\* --- SpecCreate: the host creates sessions while the first one is
\* waiting or has been ended
InitCreate ==
  /\ InitSessions
  /\ uniqueConstraint = FALSE
  /\ player_sessions = <<>>
  /\ InitController(0, 0, 0)
  /\ endReq = <<IdleEnd>>
  /\ createReq = [c \in 1..MaxCreates |-> IdleCreate]
  /\ InitSockets(0, 0, 0)

CreateStep ==
  \E c \in DOMAIN createReq :
    \/ \E candidate \in Pins : CreateTryPin(c, candidate)
    \/ CreateInsert(c)

NextCreate == CreateStep \/ EndGameStep

SpecCreate == InitCreate /\ [][NextCreate]_vars

\* --- SpecCodes: two creates race each other while the host starts and
\* ends the first session
InitCodes ==
  /\ InitSessions
  /\ uniqueConstraint = FALSE
  /\ player_sessions = Roster(1)
  /\ InitController(0, 1, 0)
  /\ endReq = <<IdleEnd>>
  /\ createReq = <<IdleCreate, IdleCreate>>
  /\ InitSockets(0, 0, 0)

NextCodes == CreateStep \/ StartGameStep \/ EndGameStep

SpecCodes == InitCodes /\ [][NextCodes]_vars

\* --- SpecTwoGames: joinGame requests for two waiting sessions
InitTwoGames ==
  /\ game_sessions = [p \in Pins |-> WaitingSession]
  /\ player_answers = <<>>
  /\ uniqueConstraint = TRUE
  /\ player_sessions = <<>>
  /\ InitController(MaxLobbyJoins, 0, 0)
  /\ InitEnd(0)
  /\ InitSockets(0, 0, 0)

JoinAnyGameStep ==
  \E j \in DOMAIN join :
    \/ \E pin \in Pins, nick \in Nicknames : JoinArrive(j, pin, nick)
    \/ JoinFindSession(j)
    \/ JoinCheckNickname(j)
    \/ JoinInsert(j)
    \/ JoinRespond(j)

NextTwoGames == JoinAnyGameStep \/ Tick

SpecTwoGames == InitTwoGames /\ [][NextTwoGames]_vars

\* --- SpecLateJoin: a joinGame request races the host's start: the host
\* has the game started over REST and, once that is answered 200, sends
\* start-game
InitLateJoin ==
  /\ InitSessions
  /\ uniqueConstraint = TRUE
  /\ player_sessions = Roster(1)
  /\ InitController(1, 1, 0)
  /\ InitEnd(0)
  /\ InitSockets(1, 0, 0)

StartedOverRest(pin) ==
  \E r \in DOMAIN startReq :
    startReq[r].gamePin = pin /\ startReq[r].res = "200"

SockStartAfterRestStep ==
  \E h \in DOMAIN sockStart :
    \/ StartedOverRest(1) /\ SockStartFetch(h, 1, "host")
    \/ SockStartPlayers(h)
    \/ SockStartInit(h)

NextLateJoin == JoinStep \/ StartGameStep \/ SockStartAfterRestStep

SpecLateJoin == InitLateJoin /\ [][NextLateJoin]_vars

\* --- SpecScore: the points of two answers of one player, for every
\* answerTime up to MaxAnswerTime
InitScore ==
  /\ InitSessions
  /\ uniqueConstraint = FALSE
  /\ player_sessions = Roster(1)
  /\ InitController(0, 0, 0)
  /\ InitEnd(0)
  /\ InitSockets(0, 2, 0)

NextScore ==
  \E s \in DOMAIN sub :
    \E answerId \in OptionIds, answerTime \in 0..MaxAnswerTime :
      SubmitInsert(s, 1, AnswerOption(answerId).question_id, answerId,
                   answerTime, TRUE)

SpecScore == InitScore /\ [][NextScore]_vars

\* --- SpecOutage: a game in which the session query of an advance may
\* come back empty
InitOutage == InitHosted(0, 1, 1, 1, 0)

NextOutage ==
  \/ SockStartStep
  \/ SubmitCurrentStep
  \/ ProgressStep
  \/ \E a \in DOMAIN adv : AdvSessionNotFound(a)

SpecOutage == InitOutage /\ [][NextOutage]_vars

\* --- SpecReport: one answer whose answerTime is whatever integer the
\* client puts into the event, negative ones included
InitReport ==
  /\ InitSessions
  /\ uniqueConstraint = FALSE
  /\ player_sessions = Roster(1)
  /\ InitController(0, 0, 0)
  /\ InitEnd(0)
  /\ InitSockets(0, 1, 0)

NextReport ==
  \E s \in DOMAIN sub :
    \E answerId \in OptionIds, answerTime \in (0 - MaxAnswerTime)..MaxAnswerTime :
      SubmitInsert(s, 1, AnswerOption(answerId).question_id, answerId,
                   answerTime, TRUE)

SpecReport == InitReport /\ [][NextReport]_vars

\* ====================================================================
\* The claims
\* ====================================================================

Answered(nick) ==
  {j \in DOMAIN join : join[j].pc = "done" /\ join[j].nickname = nick}

InFlight(nick) ==
  {j \in DOMAIN join : join[j].pc \notin {"idle", "done"} /\ join[j].nickname = nick}

Admitted(nick) == {j \in Answered(nick) : join[j].res = "201"}

\* C1: of the join requests that carry the same (game code, nickname)
\* against a waiting session, exactly one is answered with success (201) and
\* every other one with NicknameTaken (400) or TooFrequent (429): never a
\* second success, never another failure, and once all are answered one of
\* them has succeeded.
ExactlyOneJoinSucceeds ==
  \A nick \in Nicknames :
    /\ Cardinality(Admitted(nick)) <= 1
    /\ \A j \in Answered(nick) : join[j].res \in {"201", "400", "429"}
    /\ (Answered(nick) # {} /\ InFlight(nick) = {})
         => Cardinality(Admitted(nick)) = 1

\* C2: the persisted participants hold at most one Participant per
\* (session, nickname) pair.
OneParticipantPerNickname ==
  \A i, k \in 1..Len(player_sessions) :
    (/\ player_sessions[i].game_session_id = player_sessions[k].game_session_id
     /\ player_sessions[i].nickname = player_sessions[k].nickname) => i = k

\* the requests, REST or socket, that found the session active or completed
\* when they arrived
LateJoins ==
  {j \in DOMAIN join : join[j].statusSeen \in {"active", "completed"}}

LateSockJoins ==
  {k \in DOMAIN sockJoin : sockJoin[k].statusSeen \in {"active", "completed"}}

\* C9 as stated: a join request for a code whose session is active or
\* completed is answered SessionNotJoinable (the REST 404, the socket's
\* join-error) and creates no Participant.
LateJoinNotJoinable ==
  /\ \A j \in LateJoins :
       /\ join[j].pc = "done" => join[j].res = "404"
       /\ join[j].playerId = 0
  /\ \A k \in LateSockJoins : sockJoin[k].res = "join-error: started or ended"

\* C9 as amended: such a request creates no Participant and is answered
\* SessionNotJoinable, or TooFrequent (429) when it repeats a request for
\* the same (code, nickname) within the dedup window.
LateJoinRejected ==
  /\ \A j \in LateJoins :
       /\ join[j].pc \in {"find", "done"}
       /\ join[j].pc = "done" => join[j].res \in {"404", "429"}
       /\ join[j].playerId = 0
       /\ join[j].res = "429" =>
             \E i \in DOMAIN join :
               /\ i < j
               /\ join[i].gamePin = join[j].gamePin
               /\ join[i].nickname = join[j].nickname
  /\ \A k \in LateSockJoins : sockJoin[k].res = "join-error: started or ended"

\* a late request was turned away at the session lookup
LateJoinTurnedAway ==
  \E j \in LateJoins : join[j].res = "404" /\ join[j].statusSeen = "active"

\* C3: the persisted answers hold at most one Answer per (participant,
\* question) pair: a second submission for the same pair adds no row.
OneAnswerPerParticipantAndQuestion ==
  \A i, k \in 1..Len(player_answers) :
    (/\ player_answers[i].player_session_id = player_answers[k].player_session_id
     /\ player_answers[i].question_id = player_answers[k].question_id) => i = k

\* the game has moved past the question: it is live on a later one
MovedPast(pin, questionId) ==
  /\ gameStates[pin] # 0
  /\ gameStateObjs[gameStates[pin]].currentQuestionIndex > QuestionIndex(questionId)

\* C4: a submit-answer that names a question the game has already moved
\* past is a silent no-op: its steps add no answer row, change no score and
\* broadcast no score-updated.
StaleSubmitIsNoOp ==
  [][\A s \in DOMAIN sub :
       /\ (sub[s].pc = "idle" /\ sub'[s].pc = "score"
              /\ MovedPast(1, sub'[s].questionId))
            => player_answers' = player_answers
       /\ (sub[s].pc = "score" /\ sub'[s].pc = "emit"
              /\ MovedPast(1, sub[s].questionId))
            => player_sessions' = player_sessions
       /\ (sub[s].pc = "emit" /\ sub'[s].pc # "emit"
              /\ MovedPast(1, sub[s].questionId))
            => \A e \in emitted' : e.type # "score-updated"]_vars

\* the question an invocation of progressToNextQuestion was entered for is
\* no longer the current one
Overtaken(a) ==
  \/ gameStates[adv[a].gamePin] = 0
  \/ gameStateObjs[gameStates[adv[a].gamePin]].currentQuestionIndex
       # adv[a].nextIndex - 1

\* C5: advancing is idempotent: an invocation whose question is no longer
\* the current one changes neither the live state, the timers nor the
\* session, and broadcasts nothing.
AdvanceIsIdempotent ==
  [][\A a \in DOMAIN adv :
       (adv[a].pc # "idle" /\ adv'[a] # adv[a] /\ Overtaken(a))
         => /\ UNCHANGED <<game_sessions, memVars>>
            /\ emitted' = {}]_vars

\* every player on the live roster has an answer to the current question
\* and no handler is at work on the game
AllAnsweredAndQuiet(pin) ==
  /\ gameStates[pin] # 0
  /\ AllPlayersAnswered(gameStateObjs[gameStates[pin]].players,
                        AnsweredPlayerIds(gameStateObjs[gameStates[pin]].currentQuestionId))
  /\ \A s \in DOMAIN sub : sub[s].pc \in {"idle", "done"}
  /\ \A a \in DOMAIN adv : adv[a].pc = "idle"
  /\ \A h \in DOMAIN sockStart : sockStart[h].pc \in {"idle", "done"}

\* C6: once all players of the roster have answered the current question,
\* the question's long timer is disarmed: the only timer pending for the
\* game is the one of the 3 s results pause.
LongTimerDisarmedOnceAllAnswered ==
  AllAnsweredAndQuiet(1) =>
    /\ \A t \in timers : t.pin = 1 => t.ms = RESULTS_PAUSE_MS
    /\ \E t \in timers : t.id = gameStateObjs[gameStates[1]].timer

\* C7: a game that was started and whose host stays connected is
\* eventually completed and game-ended is broadcast.
StartedGameCompletes ==
  (gameStates[1] # 0) ~>
    (/\ game_sessions[1].status = "completed"
     /\ \E e \in emitted : e.type = "game-ended")

\* the game ran to its end on timer expiries alone
CompletedByTimeouts ==
  /\ game_sessions[1].status = "completed"
  /\ \E e \in emitted : e.type = "game-ended"
  /\ player_answers = <<>>

\* the answers handled so far: the handler's points and the row's
Scored == {s \in DOMAIN sub : sub[s].pc = "score"}

\* C8: of two correct answers the one with the longer answerTime earns no
\* more points; an incorrect answer earns 0; the points are those of the
\* persisted answer row.
PointsFallWithTime ==
  \A s1, s2 \in Scored :
    /\ ~AnswerOption(sub[s1].answerId).is_correct => sub[s1].points = 0
    /\ (/\ AnswerOption(sub[s1].answerId).is_correct
        /\ AnswerOption(sub[s2].answerId).is_correct
        /\ sub[s1].answerTime <= sub[s2].answerTime)
         => sub[s1].points >= sub[s2].points
    /\ \E i \in 1..Len(player_answers) :
         /\ player_answers[i].answer_option_id = sub[s1].answerId
         /\ player_answers[i].answer_time = sub[s1].answerTime
         /\ player_answers[i].points_earned = sub[s1].points

\* a quick and a slow correct answer, and a wrong one
QuickBeatsSlow ==
  \E s1, s2 \in Scored :
    /\ AnswerOption(sub[s1].answerId).is_correct
    /\ AnswerOption(sub[s2].answerId).is_correct
    /\ sub[s1].answerTime < sub[s2].answerTime
    /\ sub[s1].points > sub[s2].points
    /\ sub[s2].points > 0

\* C10: start takes effect only on a waiting session with at least one
\* player, and once: the REST update runs only on a waiting session with
\* players, and a start-game event for a session that has ended, has no
\* players or is already live changes nothing of the live state (question
\* index, roster, timer).
StartOnlyOnceFromWaiting ==
  [][/\ \A r \in DOMAIN startReq :
          (startReq[r].pc = "update" /\ startReq'[r].pc = "done")
            => (/\ game_sessions[startReq[r].gamePin].status = "waiting"
                /\ PlayersOf(startReq[r].gamePin) # {})
     /\ \A h \in DOMAIN sockStart :
          (/\ sockStart[h].pc = "init" /\ sockStart'[h].pc = "done"
           /\ \/ game_sessions[sockStart[h].gamePin].status \notin {"waiting", "active"}
              \/ PlayersOf(sockStart[h].gamePin) = {}
              \/ gameStates[sockStart[h].gamePin] # 0)
            => UNCHANGED memVars]_vars

\* C11: start, manual next-question and end change a game only when its
\* host requests them: a step of such a request from any other caller
\* changes neither the session nor the live state, broadcasts nothing, and
\* the REST requests are answered 404 (not found or unauthorized).
HostOnlyOperations ==
  [][/\ \A r \in DOMAIN startReq :
          (/\ startReq'[r] # startReq[r]
           /\ startReq'[r].caller # game_sessions[startReq'[r].gamePin].host_id)
            => /\ UNCHANGED <<game_sessions, memVars>>
               /\ startReq'[r].pc = "done" /\ startReq'[r].res = "404"
     /\ \A e \in DOMAIN endReq :
          (/\ endReq'[e] # endReq[e]
           /\ endReq'[e].caller # game_sessions[endReq'[e].gamePin].host_id)
            => /\ UNCHANGED <<game_sessions, memVars>>
               /\ endReq'[e].pc = "done" /\ endReq'[e].res = "404"
     /\ \A h \in DOMAIN sockStart :
          (/\ sockStart[h].pc \notin {"idle", "done"}
           /\ sockStart'[h] # sockStart[h]
           /\ sockStart[h].caller # game_sessions[sockStart[h].gamePin].host_id)
            => /\ UNCHANGED <<game_sessions, memVars>>
               /\ \A ev \in emitted' : ev.type = "error"
     /\ \A a \in DOMAIN adv :
          (/\ adv[a].via = "manual"
           /\ adv'[a] # adv[a]
           /\ adv[a].caller # game_sessions[adv[a].gamePin].host_id)
            => /\ UNCHANGED <<game_sessions, memVars>>
               /\ emitted' = {}]_vars

\* the players of the live roster who have no answer to the question
Unanswered(pin, questionId) ==
  gameStateObjs[gameStates[pin]].players \ AnsweredPlayerIds(questionId)

\* C12: no event tells a participant which option of the current question
\* is correct before that participant has answered it: the question sent
\* with game-started and next-question has options without the correct
\* flag, and an event to the room that names a question's correct option
\* is not sent while that question is current and a player of the roster
\* has not answered it.
NoCorrectOptionBeforeAnswer ==
  \A ev \in emitted :
    /\ ev.type \in {"game-started", "next-question"} =>
         \A o \in QuestionForClient(Questions[ev.b]).answer_options :
           DOMAIN o = {"id"}
    /\ (ev.to = "room" /\ ev.type = "question-results") =>
         \A questionId \in QuestionIds :
           (/\ ev.b = CorrectAnswer(questionId)
            /\ QuestionStillCurrent(ev.a, questionId))
             => Unanswered(ev.a, questionId) = {}

\* the games the host has ended: endGame answered 200
EndedPins == {endReq[e].gamePin : e \in {x \in DOMAIN endReq : endReq[x].res = "200"}}

\* C13: once the host has ended a game, the session is completed, the
\* game has no live-state entry and no armed timer, and no next-question
\* is broadcast for its code.
EndedGameIsOver ==
  [][\A pin \in EndedPins' :
       /\ game_sessions'[pin].status = "completed"
       /\ gameStates'[pin] = 0
       /\ \A t \in timers' : t.pin # pin
       /\ \A ev \in emitted' : ev.type = "next-question" => ev.a # pin]_vars

\* C14: the disconnect of the host's socket removes the game's live-state
\* entry, disarms the timer the entry holds, and leaves the persisted
\* sessions, participants, scores and answers as they were.
HostDisconnectCleansUp ==
  [][\A pin \in Pins :
       hostSockets'[pin] < hostSockets[pin] =>
         /\ gameStates'[pin] = 0
         /\ gameStates[pin] # 0 =>
              \A t \in timers' : t.id # gameStateObjs[gameStates[pin]].timer
         /\ UNCHANGED dbVars]_vars

\* the host left a running game in which an answer had been given
HostLeftRunningGame ==
  /\ hostSockets[1] = 0
  /\ gameStateObjs # <<>>
  /\ game_sessions[1].status # "completed"
  /\ gameStates[1] = 0
  /\ timers = {}
  /\ player_answers # <<>>
  /\ \A a \in DOMAIN adv : adv[a].pc = "idle"

\* C15: the disconnect of a player's socket only broadcasts player-left:
\* the persisted participants and scores, the live roster, the current
\* question and the armed timer are as before, so the player still counts
\* in the all-answered condition.
ParticipantDisconnectOnlyNotifies ==
  [][(\E ev \in emitted' : ev.type = "player-left") =>
       /\ UNCHANGED <<dbVars, memVars>>
       /\ \A ev \in emitted' : ev.type = "player-left" /\ ev.to = "room"]_vars

\* a player left without answering: the others have answered, and the
\* question's long timer is still the one that is armed
LeaverStillAwaited ==
  \E ev \in emitted :
    /\ ev.type = "player-left"
    /\ gameStates[1] # 0
    /\ ev.b \in Unanswered(1, gameStateObjs[gameStates[1]].currentQuestionId)
    /\ AllPlayersAnswered(gameStateObjs[gameStates[1]].players \ {ev.b},
                          AnsweredPlayerIds(gameStateObjs[gameStates[1]].currentQuestionId))
    /\ \A s \in DOMAIN sub : sub[s].pc = "done"
    /\ timers # {}
    /\ \A t \in timers : t.ms # RESULTS_PAUSE_MS

\* C16: a submission increments the score only if its answer row was
\* persisted: the score step of a submission whose insert failed leaves
\* the participants' scores as they were.
NoScoreWithoutPersistedAnswer ==
  [][\A s \in DOMAIN sub :
       (sub[s].pc = "score" /\ sub'[s].pc # "score" /\ ~sub[s].saved)
         => player_sessions' = player_sessions]_vars

\* C17: a rejected join request never partially mutates state: a step of
\* a join request writes to the database only when it is the insert of a
\* request that is then admitted, no step touches the live game state, and
\* the step that rejects (400, 404, 429) leaves the database as it was and
\* has created no participant.
RejectedJoinMutatesNothing ==
  [][\A j \in DOMAIN join :
       join'[j] # join[j] =>
         /\ dbVars' # dbVars => join'[j].pc = "respond"
         /\ UNCHANGED memVars
         /\ (join'[j].pc = "done" /\ join'[j].res \in {"400", "404", "429"})
              => /\ UNCHANGED dbVars
                 /\ join'[j].playerId = 0]_vars

\* a request was rejected for a taken nickname and one for a started game,
\* and the roster holds the one admitted player
JoinsRejected ==
  /\ \E j \in DOMAIN join : join[j].res = "400"
  /\ \E k \in DOMAIN sockJoin : sockJoin[k].res = "join-error: started or ended"
  /\ Len(player_sessions) = 1

\* the requests for (pin, nick) that arrived before request j
EarlierJoins(j, pin, nick) ==
  {i \in DOMAIN join \ {j} :
     join[i].pc # "idle" /\ join[i].gamePin = pin /\ join[i].nickname = nick}

\* those that arrived less than the dedup window before time t, when none
\* of the requests for (pin, nick) has created a participant
EarlierUnadmitted(j, pin, nick, t) ==
  {i \in EarlierJoins(j, pin, nick) :
     /\ \A k \in EarlierJoins(j, pin, nick) : join[k].playerId = 0
     /\ t - join[i].at < DEDUP_TIMEOUT}

\* C18: a join request that arrives less than the dedup window (1 s) after
\* an earlier request for the same (code, nickname) that has not been
\* admitted is answered TooFrequent (429) on arrival, before any query.
RepeatWithinWindowIsTooFrequent ==
  [][\A j \in DOMAIN join :
       (/\ join[j].pc = "idle" /\ join'[j].pc # "idle"
        /\ EarlierUnadmitted(j, join'[j].gamePin, join'[j].nickname,
                             join'[j].at) # {})
         => join'[j].pc = "done" /\ join'[j].res = "429"]_vars

\* the first requests for a key since that key was admitted
FirstRetries == {j \in DOMAIN join : join[j].firstAfter}

CreateFinishes(c) ==
  /\ createReq[c].pc # "done"
  /\ createReq'[c].pc = "done"

CreatedOneWaitingSession(c) ==
  LET pin == createReq'[c].gamePin IN
  /\ createReq'[c].res = "201"
  /\ game_sessions[pin].status = "none"
  /\ game_sessions'[pin].status = "waiting"
  /\ game_sessions'[pin].current_question_index = 0
  /\ \A p \in Pins \ {pin} : game_sessions'[p] = game_sessions[p]
  /\ gameStates'[pin] = 0
  /\ UNCHANGED <<gameStates, gameStateObjs>>

CodeGenerationFailed(c) ==
  /\ createReq'[c].res = "500: no unique pin"
  /\ createReq'[c].attempts = maxAttempts
  /\ UNCHANGED game_sessions

CreateTerminatesCleanly ==
  [][\A c \in DOMAIN createReq :
       /\ createReq'[c].attempts <= maxAttempts
       /\ CreateFinishes(c) => CreatedOneWaitingSession(c) \/ CodeGenerationFailed(c)
       /\ ~CreateFinishes(c) /\ createReq'[c] # createReq[c] =>
            UNCHANGED game_sessions]_vars

\* C21: no two sessions that are waiting or active have the same game code,
\* whatever creates, starts and ends have happened.  game_pin is UNIQUE, so
\* the table holds at most one row per code; a second session with a code
\* could only come from a create that succeeds with a code a row holds.  No
\* create succeeds with the code of a waiting or active session.
CreateSucceeds(c) ==
  /\ createReq[c].res # "201"
  /\ createReq'[c].res = "201"

NoLiveCodeShared ==
  [][\A c \in DOMAIN createReq :
       CreateSucceeds(c) =>
         game_sessions[createReq'[c].gamePin].status \notin {"waiting", "active"}]_vars

\* two creates drew the same free code: one created the session, the
\* other's insert was refused
SameCodeDrawnTwice ==
  \E c, d \in DOMAIN createReq :
    /\ createReq[c].gamePin = createReq[d].gamePin
    /\ createReq[c].res = "201"
    /\ createReq[d].res = "500"
    /\ game_sessions[1].status \in {"waiting", "active"}

\* C22: an advance invoked while the current question is the last one
\* completes the session and sets its end time, broadcasts game-ended with
\* all the session's participants ranked by descending score, removes the
\* game's live-state entry, and broadcasts no next-question.
AtLastQuestion(a) ==
  /\ adv[a].pc # "idle"
  /\ adv[a].nextIndex >= Len(Questions)

RankedDescending(scores, pin) ==
  /\ {scores[i].id : i \in 1..Len(scores)} = PlayersOf(pin)
  /\ Len(scores) = Cardinality(PlayersOf(pin))
  /\ \A i, k \in 1..Len(scores) : i < k => scores[i].score >= scores[k].score

LastAdvanceEndsGame ==
  [][\A a \in DOMAIN adv :
       AtLastQuestion(a) /\ adv'[a] # adv[a] =>
         /\ adv'[a].pc \in {"complete", "end", "idle"}
         /\ \A e \in emitted' : e.type # "next-question"
         /\ adv'[a].pc = "end" =>
              /\ game_sessions'[adv[a].gamePin].status = "completed"
              /\ game_sessions'[adv[a].gamePin].ended_at
         /\ adv'[a].pc = "idle" =>
              /\ \E e \in emitted' :
                   /\ e.type = "game-ended" /\ e.to = "room" /\ e.a = adv[a].gamePin
                   /\ RankedDescending(e.b, adv[a].gamePin)
              /\ gameStates'[adv[a].gamePin] = 0]_vars

\* the game has just ended and the player who joined second is ranked
\* first
GameEndedRanked ==
  \E e \in emitted :
    /\ e.type = "game-ended"
    /\ Len(e.b) = 2
    /\ e.b[1].id = 2
    /\ e.b[1].score > e.b[2].score
    /\ gameStates[e.a] = 0
    /\ game_sessions[e.a].status = "completed"

\* C23: an advance invoked while the current question, at index i, is not
\* the last one sets the persisted index, the live index and the live
\* question id to those of question i + 1, arms the question timer of that
\* question and broadcasts next-question with questionNumber i + 2 and the
\* number of questions; no question is skipped.
AdvanceInvoked(a) ==
  /\ adv[a].pc = "idle"
  /\ adv'[a].pc # "idle"

BeforeLastQuestion(a) ==
  /\ adv[a].pc # "idle"
  /\ adv[a].nextIndex < Len(Questions)

ShowsQuestion(pin, index) ==
  LET q == Questions[index + 1]
      o == gameStates'[pin]
  IN  /\ o # 0
      /\ gameStateObjs'[o].currentQuestionIndex = index
      /\ gameStateObjs'[o].currentQuestionId = q.id
      /\ \E t \in timers' :
           /\ t.id = gameStateObjs'[o].timer
           /\ t.pin = pin
           /\ t.ms = QuestionTimerMs(q.time_limit)
      /\ emitted' = {Event("next-question", "room", pin, index + 1, Len(Questions))}

AdvanceShowsNextQuestion ==
  [][\A a \in DOMAIN adv :
       /\ AdvanceInvoked(a) =>
            adv'[a].nextIndex =
              gameStateObjs[gameStates[adv'[a].gamePin]].currentQuestionIndex + 1
       /\ BeforeLastQuestion(a) /\ adv'[a] # adv[a] =>
            /\ adv'[a].pc \in {"next", "idle"}
            /\ \A e \in emitted' : e.type # "game-ended"
            /\ adv'[a].pc = "next" =>
                 game_sessions'[adv[a].gamePin].current_question_index
                   = adv[a].nextIndex
            /\ adv'[a].pc = "idle" => ShowsQuestion(adv[a].gamePin, adv[a].nextIndex)]_vars

\* the second question has just been broadcast and its timer is armed
SecondQuestionShown ==
  /\ Event("next-question", "room", 1, 2, Len(Questions)) \in emitted
  /\ gameStates[1] # 0
  /\ gameStateObjs[gameStates[1]].currentQuestionIndex = 1
  /\ game_sessions[1].current_question_index = 1
  /\ \E t \in timers : t.id = gameStateObjs[gameStates[1]].timer

\* C24: the correctness and the points of a submission go to the
\* submitter's connection only: no event sent to the game's room tells
\* whether a participant's answer was correct.
TellsResultOf(e) ==
  \/ e.type = "answer-result"
  \/ e.type = "score-updated" /\ e.b # 0     \* updatedPlayer is present

ResultOnlyToSubmitter ==
  \A e \in emitted : TellsResultOf(e) => e.to = "socket"

\* C25: operations on different game codes are independent: a step of an
\* operation on game code A leaves the live state, the armed timer, the
\* roster and the pending dedup entries of every other game code B
\* unchanged.  Stated for the steps of joinGame.
PendingDedup(pin) ==
  {nick \in Nicknames : TooFrequent(<<pin, nick>>, now)}

RosterOf(rows, pin) ==
  {i \in 1..Len(rows) : rows[i].game_session_id = pin}

TimersOf(tms, pin) == {t \in tms : t.pin = pin}

JoinLeavesOtherGamesAlone ==
  [][\A j \in DOMAIN join :
       join'[j] # join[j] =>
         \A B \in Pins \ {join'[j].gamePin} :
           /\ \A nick \in PendingDedup(B) :
                recentJoinRequests'[<<B, nick>>] = recentJoinRequests[<<B, nick>>]
           /\ RosterOf(player_sessions', B) = RosterOf(player_sessions, B)
           /\ gameStates'[B] = gameStates[B]
           /\ TimersOf(timers', B) = TimersOf(timers, B)
           /\ game_sessions'[B] = game_sessions[B]]_vars

\* C26: at most one progression timer is armed per game: every arming
\* (start of the game, start of a question, the pause once all have
\* answered) first disarms the timer armed before it.
AtMostOneTimerPerGame ==
  \A pin \in Pins : Cardinality(TimersOf(timers, pin)) <= 1

\* C27: a timer's expiry advances the game only if the question the timer
\* was pending for is still the current one when the expiry handler acts:
\* an expiry whose question has been left writes nothing and broadcasts
\* nothing.
ExpiryActs(a) ==
  /\ adv[a].via \in {"timeout", "pause"}
  /\ adv[a].pc # "idle"
  /\ adv'[a] # adv[a]
  /\ \/ game_sessions' # game_sessions
     \/ memVars' # memVars
     \/ emitted' # {}

ExpiryActsOnCurrentQuestionOnly ==
  [][\A a \in DOMAIN adv :
       ExpiryActs(a) =>
         /\ gameStates[adv[a].gamePin] # 0
         /\ gameStateObjs[gameStates[adv[a].gamePin]].currentQuestionIndex
              = adv[a].nextIndex - 1]_vars

\* C28: while a game is live, its live roster is the set of participants
\* persisted for its session: no join that races the start leaves a
\* persisted participant off the roster that the all-answered condition
\* uses.
LiveRosterIsPersistedRoster ==
  \A pin \in Pins :
    gameStates[pin] # 0 =>
      gameStateObjs[gameStates[pin]].players = PlayersOf(pin)

\* C29: the persisted status of a session only moves forward, waiting to
\* active to completed: a completed session keeps its status whatever
\* happens, and a session becomes completed only from active.
Forward(old, new) ==
  \/ old = "none" /\ new = "waiting"
  \/ old = "waiting" /\ new = "active"
  \/ old = "active" /\ new = "completed"

StatusOnlyMovesForward ==
  [][\A pin \in Pins :
       game_sessions'[pin].status # game_sessions[pin].status =>
         Forward(game_sessions[pin].status, game_sessions'[pin].status)]_vars

\* C30: the points of a correct answer are round(1000 * max(0, 1 -
\* elapsed / 30)): 1000 at elapsed 0, 0 from elapsed 30 on, and the same
\* for equal elapsed times whatever the question's time limit and point
\* budget.
QuestionOf(s) ==
  CHOOSE q \in QuestionRows : q.id = sub[s].questionId

CorrectlyAnswered == {s \in Scored : AnswerOption(sub[s].answerId).is_correct}

PointsDependOnElapsedOnly ==
  \A s \in CorrectlyAnswered :
    LET elapsed == sub[s].answerTime
        points  == sub[s].points
    IN  /\ elapsed = 0 => points = 1000
        /\ elapsed >= 30 => points = 0
        /\ elapsed < 30 =>
             /\ 60 * points > 2000 * (30 - elapsed) - 30
             /\ 60 * points <= 2000 * (30 - elapsed) + 30
        /\ \A t \in CorrectlyAnswered :
             sub[t].answerTime = elapsed => sub[t].points = points

\* two correct answers given equally fast to questions of different time
\* limits and point budgets
SameElapsedOnTwoQuestions ==
  \E s, t \in CorrectlyAnswered :
    /\ QuestionOf(s).time_limit # QuestionOf(t).time_limit
    /\ QuestionOf(s).points # QuestionOf(t).points
    /\ sub[s].answerTime = sub[t].answerTime
    /\ sub[s].answerTime = 20
    /\ sub[s].points = 333
    /\ sub[t].points = 333

\* C31: a participant's score is a non-negative integer that never
\* decreases, and it changes only by the score step of an accepted
\* submission (one whose answer was persisted) of that participant, by that
\* submission's points; no other step changes a score or removes a
\* participant.
AcceptedSubmitScores(s, playerId) ==
  /\ sub[s].pc = "score"
  /\ sub'[s].pc = "emit"
  /\ sub[s].playerId = playerId
  /\ sub[s].saved
  /\ player_sessions'[playerId].score =
       player_sessions[playerId].score + sub[s].points

ScoreChangedOnlyBySubmit ==
  [][/\ Len(player_sessions') >= Len(player_sessions)
     /\ \A i \in 1..Len(player_sessions) :
          /\ player_sessions[i].score >= 0
          /\ player_sessions'[i].score >= player_sessions[i].score
          /\ player_sessions'[i].score # player_sessions[i].score =>
               \E s \in DOMAIN sub : AcceptedSubmitScores(s, i)]_vars

\* C32: the question events of one game form a strictly ordered stream:
\* game-started with ordinal 1, then next-question with ordinals 2, 3, ...
\* each once and in increasing order, then game-ended.  The question last
\* shown for a game is the one its gameState object holds, so: game-started
\* carries ordinal 1 and is sent for a game that has shown no question,
\* next-question with ordinal n is sent when the question last shown has
\* ordinal n - 1, and game-ended when the last question is the one shown.
ObjectsOf(pin) ==
  {o \in DOMAIN gameStateObjs : gameStateObjs[o].gameSessionId = pin}

LastShownIs(pin, ordinal) ==
  /\ ObjectsOf(pin) # {}
  /\ \A o \in ObjectsOf(pin) :
       gameStateObjs[o].currentQuestionIndex + 1 = ordinal

QuestionStreamOrdered ==
  [][\A e \in emitted' :
       /\ e.type = "game-started" => e.b = 1 /\ ObjectsOf(e.a) = {}
       /\ e.type = "next-question" => LastShownIs(e.a, e.b - 1)
       /\ e.type = "game-ended" => LastShownIs(e.a, Len(Questions))]_vars

\* C33: the points awarded for one answer lie between 0 and 1000
\* inclusive, whatever answerTime the client reports, negative values and
\* values beyond the time limit included.
PointsWithinBudget ==
  /\ \A s \in DOMAIN sub : sub[s].points >= 0 /\ sub[s].points <= 1000
  /\ \A i \in 1..Len(player_answers) :
       /\ player_answers[i].points_earned >= 0
       /\ player_answers[i].points_earned <= 1000

\* C34: the pause timer is armed only for the question that is current
\* when it is armed, and only when every player of the live roster has a
\* persisted answer to it: an all-answered check that was started for a
\* question and resumes after the game has left it leaves the timers alone.
CheckResumes(s) ==
  /\ sub[s].pc = "check"
  /\ sub'[s].pc # "check"

PauseOnlyForCurrentQuestion ==
  [][\A s \in DOMAIN sub :
       CheckResumes(s) /\ timers' # timers =>
         LET pin == gameStateObjs[sub[s].obj].gameSessionId IN
         /\ QuestionStillCurrent(pin, sub[s].questionId)
         /\ AllPlayersAnswered(gameStateObjs[gameStates[pin]].players,
                               AnsweredPlayerIds(sub[s].questionId))]_vars

\* C35: a live-state entry exists for a game code only while the persisted
\* status of that session is active: none for a waiting session, none once
\* the session is completed.
EntryOnlyWhileActive ==
  \A pin \in 1..NumPins :
    gameStates[pin] # 0 => game_sessions[pin].status = "active"

\* C36: whenever a live-state entry exists, its currentQuestionIndex lies in
\* 0..totalQuestions-1 and its currentQuestionId is the id of the question
\* at that index of the sorted question list; while the entry exists the
\* index never decreases.
IndexNamesCurrentQuestion(pin) ==
  LET gameState == gameStateObjs[gameStates[pin]] IN
  /\ gameState.currentQuestionIndex >= 0
  /\ gameState.currentQuestionIndex < gameState.totalQuestions
  /\ gameState.totalQuestions = Len(Questions)
  /\ gameState.currentQuestionId = Questions[gameState.currentQuestionIndex + 1].id

IndexStepsForward(pin) ==
  gameStates[pin] # 0 /\ gameStates'[pin] # 0 =>
    gameStateObjs'[gameStates'[pin]].currentQuestionIndex
      >= gameStateObjs[gameStates[pin]].currentQuestionIndex

IndexValidAndNeverDecreases ==
  /\ [](\A pin \in 1..NumPins : gameStates[pin] # 0 => IndexNamesCurrentQuestion(pin))
  /\ [][\A pin \in 1..NumPins : IndexStepsForward(pin)]_vars

\* C37: once the live-state entry of a game has been discarded, nothing
\* but a new start-game creates an entry or arms a timer for that game code:
\* an advance or an all-answered check that was suspended on a storage call
\* when the entry was discarded does neither when it resumes.
StartGameCompletes(pin) ==
  \E i \in DOMAIN sockStart :
    /\ sockStart[i].pc = "init"
    /\ sockStart[i].gamePin = pin
    /\ sockStart'[i].pc = "done"

DiscardedEntryStaysDiscarded ==
  [][\A pin \in 1..NumPins :
       /\ gameStates[pin] = 0
       /\ \/ gameStates'[pin] # 0
          \/ TimersOf(timers', pin) \ TimersOf(timers, pin) # {}
       => StartGameCompletes(pin)]_vars

\* C38: while a live-state entry exists, a timer is armed for that game or
\* an advance is in progress, whatever the outcome of an advance was, a
\* failed or empty storage read included.
AdvanceInProgress(pin) ==
  \E a \in DOMAIN adv : adv[a].pc # "idle" /\ adv[a].gamePin = pin

LiveGameAlwaysScheduled ==
  \A pin \in 1..NumPins :
    gameStates[pin] # 0 => TimersOf(timers, pin) # {} \/ AdvanceInProgress(pin)

====
